---- MODULE Spec2Model ----
(***************************************************************************)
(* kvikdos: a DOS .com runner on top of KVM (src/kvikdos.c, the second,    *)
(* current program text, lines 217-565).                                   *)
(*                                                                         *)
(* The model follows main(): bootstrap, then the loop that enters KVM_RUN, *)
(* reads the registers back at each VM exit and dispatches on the exit     *)
(* reason.  The guest is untrusted: at a VM exit its registers are an      *)
(* arbitrary register file (drawn here from the finite set ExitStates),    *)
(* and while it runs it may store into the writable memory slot.           *)
(*                                                                         *)
(* Widths.  The kvm_regs fields are 64 bits wide; outside long mode their  *)
(* upper 32 bits are zero and the code never changes them, so a register   *)
(* is a 32-bit value here, kept as its two 16-bit halves [hi, lo] (the     *)
(* model checker's integers stop at 2^31 - 1).  The code's casts and       *)
(* partial stores are Low16, Low8, SetLow16, and its 32-bit arithmetic is  *)
(* Add32, Dec32.  Segment selectors are 16 bits (__u16).                   *)
(***************************************************************************)
EXTENDS Integers, Sequences, FiniteSets, TLC

VARIABLES
  pc,      \* where main() is: "boot", "kvm_run" (top of the loop), "guest"
           \* (inside KVM_RUN), "dispatch" (at the switch), "exited"
  status,  \* the process exit status once pc = "exited", else NoStatus
  argv,    \* the DOS arguments argv[2..], each a sequence of bytes
  image,   \* the bytes of the file argv[1]
  cmd,     \* what copy_args_to_dos_args left at psp + 0x80
  regs,    \* struct kvm_regs regs, the fields the program uses
  sregs,   \* struct kvm_sregs sregs, selector and base of the six segments
  run,     \* run->exit_reason of the shared kvm_run page
  mem,     \* guest memory: the bytes that differ from BootMem
  last,    \* the locals of the last dispatch (int_num, ah, int_cs, int_ip)
  io,      \* the host read()/write() calls made by the last dispatch
  acc      \* the guest-memory ranges the host touched in the last dispatch

vars == <<pc, status, argv, image, cmd, regs, sregs, run, mem, last, io, acc>>

----------------------------------------------------------------------------
(* Program constants.                                                      *)

MEM_SIZE == 2097152                \* 2 << 20
BASE_PARA == 256                   \* 0x100
GUEST_MEM_MODULE_START == 4096     \* 0x1000
FATAL_STATUS == 252                \* exit(252) / return 252
TWO16 == 2^16

NoStatus == 0 - 1     \* pc # "exited": the process has no exit status yet

(* Bounds of the model.                                                    *)
MaxDirty == 2      \* at most this many bytes of memory differ from BootMem
MaxIO == 2         \* a short host read()/write() returns at most this many

----------------------------------------------------------------------------
(* Integer helpers for the code's casts.                                   *)

W(x) == [hi |-> x \div TWO16, lo |-> x % TWO16]    \* the register holding x
Low16(r) == r.lo                          \* (unsigned short)r, r & 0xffff
Low8(r) == r.lo % 256                     \* (unsigned char)r, r & 0xff
SetLow16(r, v) == [r EXCEPT !.lo = v % TWO16]       \* *(unsigned short*)&r = v
\* (unsigned)r + k and (unsigned)r - 1, modulo 2^32
Add32(r, k) ==
  [hi |-> (r.hi + ((r.lo + k) \div TWO16)) % TWO16, lo |-> (r.lo + k) % TWO16]
Dec32(r) ==
  IF r.lo > 0 THEN [r EXCEPT !.lo = @ - 1]
  ELSE [hi |-> (r.hi + TWO16 - 1) % TWO16, lo |-> TWO16 - 1]
Below(r, n) == r.hi = 0 /\ r.lo < n       \* (unsigned)r < n, for n <= 2^16
Bit0(x) == x % 2
SetBit0(x) == IF x % 2 = 0 THEN x + 1 ELSE x        \* |= 1 << 0
ClearBit0(x) == x - (x % 2)                         \* &= ~(1 << 0)

Seg(sel) == [selector |-> sel, base |-> sel * 16]

SegNames == {"cs", "ds", "es", "fs", "gs", "ss"}

----------------------------------------------------------------------------
(* The files and argument lists considered.                                *)

\* A file is its first bytes followed by pad more bytes, all equal to fill.
File(bytes, pad, fill) == [bytes |-> bytes, pad |-> pad, fill |-> fill]

\* mov ah,9 / mov dx,0x109 / int 0x21 / int 0x20 / "Hi$"
HelloImage ==
  File(<<180, 9, 186, 9, 1, 205, 33, 205, 32, 72, 105, 36>>, 0, 0)

Images == {HelloImage}

Run(n, b) == [i \in 1..n |-> b]

\* "\xff\xff" (accepted: the tail is 20 ff ff 0d) and 127 bytes (rejected)
ArgLists == {<<Run(2, 255)>>, <<Run(127, 65)>>}

ImageLen(img) == Len(img.bytes) + img.pad
ImageByte(img, i) == IF i < Len(img.bytes) THEN img.bytes[i + 1] ELSE img.fill

----------------------------------------------------------------------------
(* copy_args_to_dos_args(p, args): the running size and the bytes written  *)
(* at p[1..size-1], or fatal when an argument does not fit.  The arguments *)
(* considered are far shorter than 2^32 bytes, so size + arg_size never    *)
(* wraps and the test size + arg_size < size is always false.              *)

\* copy_args_to_dos_args with the limit test off by one (> 128)
RECURSIVE CopyArgs_Limit128(_, _, _)
CopyArgs_Limit128(args, size, out) ==
  IF args = <<>>
  THEN [fatal |-> FALSE, size |-> size, bytes |-> out]
  ELSE LET arg == Head(args)
           arg_size == Len(arg)
           sum == size + arg_size
       IN IF sum < size \/ sum > 128
          THEN [fatal |-> TRUE, size |-> size, bytes |-> out]
          ELSE CopyArgs_Limit128(Tail(args), size + 1 + arg_size,
                                 out \o <<32>> \o arg)

RECURSIVE CopyArgs(_, _, _)
CopyArgs(args, size, out) ==
  IF args = <<>>
  THEN [fatal |-> FALSE, size |-> size, bytes |-> out]
  ELSE LET arg == Head(args)
           arg_size == Len(arg)
           sum == size + arg_size
       IN IF sum < size \/ sum > 127
          THEN [fatal |-> TRUE, size |-> size, bytes |-> out]
          ELSE CopyArgs(Tail(args), size + 1 + arg_size, out \o <<32>> \o arg)

copy_args_to_dos_args(args) == CopyArgs(args, 1, <<>>)

\* psp[0x80] = 0, before copy_args_to_dos_args runs
NoCmd == [fatal |-> FALSE, size |-> 1, bytes |-> <<>>]

----------------------------------------------------------------------------
(* Guest memory after bootstrap, as a function of the address.  main()     *)
(* writes in this order: the zero-filled mapping, load_guest's image, the  *)
(* magic interrupt table, the 256 hlt bytes, the stack word, the PSP, the  *)
(* command line.  A later write wins, so the cases are in reverse order.   *)

PspAddr == BASE_PARA * 16
ArgsAddr == PspAddr + 128          \* psp + 0x80
ImageAddr == PspAddr + 256         \* (BASE_PARA << 4) + 0x100
BootSp == 65534                    \* regs.rsp = sp = 0xfffe

IvtByte(a) ==
  LET u == a \div 4
      v == 4194304 + u             \* 0x400000 | u, little-endian
  IN CASE a % 4 = 0 -> v % 256
       [] a % 4 = 1 -> (v \div 256) % 256
       [] a % 4 = 2 -> (v \div 65536) % 256
       [] a % 4 = 3 -> (v \div 16777216) % 256

\* the file loaded last, after the PSP and the stack word were written
BootMem_ImageLast(a) ==
  LET c == cmd
  IN IF a >= ImageAddr /\ a < ImageAddr + ImageLen(image)
          THEN ImageByte(image, a - ImageAddr)
     ELSE IF a = ArgsAddr THEN (c.size - 1) % 256
     ELSE IF a = ArgsAddr + c.size THEN 13
     ELSE IF a > ArgsAddr /\ a < ArgsAddr + c.size THEN c.bytes[a - ArgsAddr]
     ELSE IF a = PspAddr + 2 THEN 0
     ELSE IF a = PspAddr + 3 THEN 160
     ELSE IF a = PspAddr THEN 205
     ELSE IF a = PspAddr + 1 THEN 32
     ELSE IF a >= 1024 /\ a < 1024 + 256 THEN 244
     ELSE IF a >= 0 /\ a < 1024 THEN IvtByte(a)
     ELSE 0

BootMem(a) ==
  LET c == cmd
  IN IF a = ArgsAddr THEN (c.size - 1) % 256
     ELSE IF a = ArgsAddr + c.size THEN 13
     ELSE IF a > ArgsAddr /\ a < ArgsAddr + c.size THEN c.bytes[a - ArgsAddr]
     ELSE IF a = PspAddr + 2 THEN 0
     ELSE IF a = PspAddr + 3 THEN 160
     ELSE IF a = PspAddr THEN 205
     ELSE IF a = PspAddr + 1 THEN 32
     ELSE IF a = PspAddr + BootSp \/ a = PspAddr + BootSp + 1 THEN 0
     ELSE IF a >= 1024 /\ a < 1024 + 256 THEN 244
     ELSE IF a >= 0 /\ a < 1024 THEN IvtByte(a)
     ELSE IF a >= ImageAddr /\ a < ImageAddr + ImageLen(image)
          THEN ImageByte(image, a - ImageAddr)
     ELSE 0

MemAt(m, a) == IF a \in DOMAIN m THEN m[a] ELSE BootMem(a)

\* *(const unsigned short*)(mem + a)
Word(m, a) == MemAt(m, a) + 256 * MemAt(m, a + 1)

\* memory m with the bytes d stored from address p on
Store(m, p, d) ==
  LET n == Len(d)
      at(x) == IF x >= p /\ x < p + n THEN d[x - p + 1] ELSE m[x]
      dom == {x \in DOMAIN m \cup p..(p + n - 1) : at(x) # BootMem(x)}
  IN [x \in dom |-> at(x)]

EmptyMem == [x \in {} |-> 0]

----------------------------------------------------------------------------
(* Register files.                                                         *)

\* The x86 reset state, as KVM_GET_REGS / KVM_GET_SREGS return it for a new
\* VCPU (lines 372-379), before main() sets anything.
ResetRegs ==
  [rax |-> W(0), rbx |-> W(0), rcx |-> W(0), rdx |-> W(1536), rsp |-> W(0),
   rip |-> W(65520), rflags |-> W(2)]
\* cs.base is 0xffff0000 at reset, kept here modulo 2^31
ResetSregs ==
  [cs |-> [selector |-> 61440, base |-> 2147418112],
   ds |-> Seg(0), es |-> Seg(0), fs |-> Seg(0), gs |-> Seg(0), ss |-> Seg(0)]

\* SET_SEGMENT_REG storing the selector and leaving the base as it was
SET_SEGMENT_REG_SelectorOnly(s, name, para_value) ==
  [s EXCEPT ![name].selector = para_value % TWO16]

\* #define SET_SEGMENT_REG(name, para_value)
\*   sregs.name.base = (sregs.name.selector = para_value) << 4
SET_SEGMENT_REG(s, name, para_value) ==
  [s EXCEPT ![name] = [selector |-> para_value % TWO16,
                       base |-> (para_value % TWO16) * 16]]

\* regs and sregs while they hold nothing the program will read again:
\* inside KVM_RUN, and once the process has exited.
NoRegs == [rax |-> W(0), rbx |-> W(0), rcx |-> W(0), rdx |-> W(0),
           rsp |-> W(0), rip |-> W(0), rflags |-> W(0)]
NoSregs == [n \in SegNames |-> Seg(0)]

NoLast == [kind |-> "none", int_num |-> 0, ah |-> 0, int_cs |-> 0, int_ip |-> 0]
Last(kind) == [NoLast EXCEPT !.kind = kind]

Init ==
  /\ pc = "boot"
  /\ status = NoStatus
  /\ argv \in ArgLists
  /\ image \in Images
  /\ cmd = NoCmd
  /\ regs = ResetRegs
  /\ sregs = ResetSregs
  /\ run = [exit_reason |-> "none"]
  /\ mem = EmptyMem
  /\ last = NoLast
  /\ io = <<>>
  /\ acc = {}

\* exit(code), and main's "exit:" label with code 252
Exit(code) ==
  /\ pc' = "exited"
  /\ status' = code
  /\ regs' = NoRegs
  /\ sregs' = NoSregs
  /\ run' = [exit_reason |-> "none"]

\* label set_sregs_regs_and_continue: KVM_SET_SREGS and KVM_SET_REGS hand
\* s and r to the VCPU, then the top of the for loop; either ioctl may
\* fail, which is exit(252).
set_sregs_regs_and_continue(ok, r, s) ==
  IF ok THEN /\ pc' = "kvm_run"
             /\ status' = status
             /\ regs' = r
             /\ sregs' = s
             /\ run' = run
        ELSE Exit(FATAL_STATUS)

----------------------------------------------------------------------------
(* main() up to the first KVM_RUN.                                         *)

\* An open(), ioctl() or mmap() of the bootstrap fails, or argv[1] is
\* missing: every such branch is exit(252).
BootFail ==
  /\ pc = "boot"
  /\ Exit(FATAL_STATUS)
  /\ last' = Last("boot")
  /\ UNCHANGED <<argv, image, cmd, mem, io, acc>>

Bootstrap ==
  /\ pc = "boot"
  /\ LET c == copy_args_to_dos_args(argv)
         s1 == SET_SEGMENT_REG(sregs, "cs", BASE_PARA)
         s2 == SET_SEGMENT_REG(s1, "ds", BASE_PARA)
         s3 == SET_SEGMENT_REG(s2, "es", BASE_PARA)
         s4 == SET_SEGMENT_REG(s3, "fs", BASE_PARA)
         s5 == SET_SEGMENT_REG(s4, "gs", BASE_PARA)
         s6 == SET_SEGMENT_REG(s5, "ss", BASE_PARA)
         r1 == [regs EXCEPT !.rsp = W(BootSp), !.rflags = W(2), !.rip = W(256)]
     IN IF c.fatal
        THEN Exit(FATAL_STATUS)
        ELSE \E ok \in BOOLEAN : set_sregs_regs_and_continue(ok, r1, s6)
  /\ cmd' = copy_args_to_dos_args(argv)
  /\ mem' = EmptyMem
  /\ last' = Last("boot")
  /\ UNCHANGED <<argv, image, io, acc>>

----------------------------------------------------------------------------
(* The guest.  Between two VM exits the guest owns the VCPU: the host's    *)
(* regs and sregs are stale until KVM_GET_REGS / KVM_GET_SREGS overwrite   *)
(* them, so KvmRunEnter sets them to NoRegs.                               *)

\* for (;;) { ioctl(vcpu_fd, KVM_RUN, 0) ...: the guest starts to run
KvmRunEnter ==
  /\ pc = "kvm_run"
  /\ pc' = "guest"
  /\ regs' = NoRegs
  /\ sregs' = NoSregs
  /\ run' = [exit_reason |-> "none"]
  /\ last' = NoLast
  /\ io' = <<>>
  /\ acc' = {}
  /\ UNCHANGED <<status, argv, image, cmd, mem>>

\* Bytes the guest stores and bytes that arrive on a host descriptor.
DataBytes == {36, 65}

\* Addresses the guest stores to: a stack slot, and the vector of int 0x21.
StoreAddrs == {PspAddr + 65528, 132}

\* The guest stores a byte.  Slot 0, [GUEST_MEM_MODULE_START, MEM_SIZE), is
\* writable; slot 1, [0, 0x1000), is KVM_MEM_READONLY: a store there does
\* not happen (it ends KVM_RUN with KVM_EXIT_MMIO, see VmExit).
GuestStore ==
  /\ pc = "guest"
  /\ \E a \in StoreAddrs, b \in DataBytes :
       /\ a >= GUEST_MEM_MODULE_START
       /\ a < MEM_SIZE
       /\ mem' = Store(mem, a, <<b>>)
       /\ Cardinality(DOMAIN mem') <= MaxDirty
  /\ UNCHANGED <<pc, status, argv, image, cmd, regs, sregs, run, last, io, acc>>

\* ioctl(KVM_RUN), KVM_GET_REGS or KVM_GET_SREGS fails: exit(252)
KvmFail ==
  /\ pc = "guest"
  /\ Exit(FATAL_STATUS)
  /\ UNCHANGED <<argv, image, cmd, mem, last, io, acc>>

\* A register file at a VM exit.  st = <<ss, rsp>>, buf = <<ds, rdx>>; rsp
\* is given as a register, the other values as numbers below 2^31.
\* In real mode every base is selector << 4.
Mk(reason, cs, rip, rax, rbx, rcx, buf, st, fl, o) ==
  [exit_reason |-> reason,
   regs |-> [rax |-> W(rax), rbx |-> W(rbx), rcx |-> W(rcx),
             rdx |-> W(buf[2]), rsp |-> st[2], rip |-> W(rip),
             rflags |-> W(fl)],
   sregs |-> [cs |-> Seg(cs), ds |-> Seg(buf[1]), es |-> Seg(o),
              fs |-> Seg(o), gs |-> Seg(o), ss |-> Seg(st[1])]]

AllOnes == [hi |-> TWO16 - 1, lo |-> TWO16 - 1]     \* ESP = 0xffffffff
\* SS:SP at the exit: below the initial stack top; on the command line at
\* psp + 0x80; the last byte of the last segment; ESP = 0xffffffff; inside
\* the buffer DefBuf
Stacks == {<<256, W(65528)>>, <<256, W(128)>>, <<65535, W(65535)>>,
           <<256, AllOnes>>, <<256, W(512)>>}
DefStack == <<256, W(65528)>>
BufStacks == {DefStack, <<256, W(512)>>}   \* the second lies in DefBuf
FlagValues == {2, 583}                     \* 0x0002, 0x0247 (CF set)
Handles == {0, 1, 2, 3, 4, 5, 65537}
Counts == {0, 2, 65535}
\* DS:EDX: a buffer in the program segment; the vector of int 0x21; the
\* last byte of the last segment with EDX = 0x1fffff; EDX = 0x10200
Bufs == {<<256, 512>>, <<0, 132>>, <<65535, 2097151>>, <<256, 66048>>}
DefBuf == <<256, 512>>
Bufs09 == {<<256, 265>>, <<0, 0>>, <<256, 65534>>, <<65535, 65534>>}
CharBufs == {<<256, 65>>, <<256, 255>>}    \* DL = 'A', DL = 0xff
PlainAH == {0, 42, 48}                     \* AH = 0x00, 0x2a, 0x30

ExitStates ==
  \* int 0x21, AH = 0x3f / 0x40: handle, count, buffer
  { Mk("hlt", 64, 34, ah * 256, bx, cx, buf, st, fl, 256) :
      ah \in {63, 64}, bx \in Handles, cx \in Counts, buf \in Bufs,
      st \in BufStacks, fl \in FlagValues }
  \cup
  \* int 0x21, AH = 0x09
  { Mk("hlt", 64, 34, 9 * 256, 0, 0, buf, st, fl, 256) :
      buf \in Bufs09, st \in Stacks, fl \in FlagValues }
  \cup
  \* int 0x21, AH = 0x04 / 0x05 / 0x06: DL
  { Mk("hlt", 64, 34, ah * 256, 0, 0, buf, st, fl, 256) :
      ah \in {4, 5, 6}, buf \in CharBufs, st \in Stacks, fl \in FlagValues }
  \cup
  \* int 0x21, other AH; EAX with and without high bits
  { Mk("hlt", 64, 34, hi + ah * 256 + 42, 1, 1, DefBuf, st, fl, 256) :
      ah \in PlainAH \cup {76}, hi \in {0, 65536}, st \in Stacks,
      fl \in FlagValues }
  \cup
  \* int 0x21, AH = 0x4c: every AL
  { Mk("hlt", 64, 34, 76 * 256 + al, 0, 0, DefBuf, DefStack, 2, 256) :
      al \in 0..255 }
  \cup
  \* int 0x29, int 0x20, int 0x10 (AH = 0x0e, 0x00), int 0x13, int 0x00,
  \* int 0xff
  { Mk("hlt", 64, ip, ah * 256 + 65, 0, 0, DefBuf, st, fl, 256) :
      ip \in {42, 33, 17, 20, 1, 256}, ah \in {14, 0},
      st \in Stacks, fl \in FlagValues }
  \cup
  \* int 0x29 with ES = FS = GS elsewhere
  { Mk("hlt", 64, 42, 65, 0, 0, DefBuf, st, 2, 47104) : st \in Stacks }
  \cup
  \* hlt outside the magic table
  { Mk("hlt", q[1], q[2], 76 * 256, 0, 0, DefBuf, DefStack, 2, 256) :
      q \in {<<64, 0>>, <<64, 257>>, <<256, 34>>, <<256, 265>>} }
  \cup
  \* the other exit reasons
  { Mk(reason, 256, 265, 0, 0, 0, DefBuf, DefStack, fl, 256) :
      reason \in {"io", "shutdown", "mmio", "other"}, fl \in FlagValues }

\* ioctl(KVM_RUN) returns; KVM_GET_REGS and KVM_GET_SREGS fill regs, sregs
VmExit ==
  /\ pc = "guest"
  /\ \E x \in ExitStates :
       /\ run' = [exit_reason |-> x.exit_reason]
       /\ regs' = x.regs
       /\ sregs' = x.sregs
  /\ pc' = "dispatch"
  /\ UNCHANGED <<status, argv, image, cmd, mem, last, io, acc>>

----------------------------------------------------------------------------
(* The dispatcher: switch (run->exit_reason), lines 440-560.               *)

AtExit(reason) == pc = "dispatch" /\ run.exit_reason = reason

\* the test on rip alone, without the test of the cs selector
IsMagicHlt_AnyCs(r, s) == Below(Dec32(r.rip), 256)

\* (unsigned)sregs.cs.selector == 0x40 && (unsigned)((unsigned)regs.rip - 1) < 0x100
IsMagicHlt(r, s) == s.cs.selector = 64 /\ Below(Dec32(r.rip), 256)

\* const unsigned char int_num = ((unsigned)regs.rip - 1) & 0xff
IntNum(r) == Low8(Dec32(r.rip))

\* csip_ptr = mem + ((unsigned)sregs.ss.selector << 4) + ((unsigned)regs.rsp & 0xffff)
CsipPtr(r, s) == s.ss.selector * 16 + Low16(r.rsp)

\* const unsigned char ah = ((unsigned)regs.rax >> 8) & 0xff
AH(r) == (Low16(r.rax) \div 256) % 256

\* the pointer computed from all of edx, without & 0xffff
DsDxPtr_NoMask(r, s) == s.ds.selector * 16 + r.rdx.hi * TWO16 + r.rdx.lo

\* mem + ((unsigned)sregs.ds.selector << 4) + ((unsigned)regs.rdx & 0xffff)
DsDxPtr(r, s) == s.ds.selector * 16 + Low16(r.rdx)

\* popping ip and cs but not the flags word
PopFrame_NoFlags(rsp) == Add32(rsp, 4)

\* *(unsigned*)&regs.rsp += 6
PopFrame(rsp) == Add32(rsp, 6)

\* STDPRN sent to stdout, as the comment beside the assignment says
HandleToFd_PrnToStdout(fd) == IF fd = 3 THEN 2 ELSE IF fd = 4 THEN 1 ELSE fd

\* if (fd == 3) fd = 2; else if (fd == 4) fd = 0;
HandleToFd(fd) == IF fd = 3 THEN 2 ELSE IF fd = 4 THEN 0 ELSE fd

\* the exit status taken from AH instead of AL
ExitCode4C_FromAH(r) == AH(r)

\* exit((unsigned)regs.rax & 0xff)
ExitCode4C(r) == Low8(r.rax)

int_num == IntNum(regs)
ah == AH(regs)
csip_ptr == CsipPtr(regs, sregs)
int_ip == Word(mem, csip_ptr)          \* csip_ptr[0]
int_cs == Word(mem, csip_ptr + 2)      \* csip_ptr[1]

FrameAcc == [lo |-> csip_ptr, len |-> 4]

ThisInt == [kind |-> "int", int_num |-> int_num, ah |-> ah,
            int_cs |-> int_cs, int_ip |-> int_ip]

\* The if / else if chain on int_num, lines 459-543.
IntBranch ==
  IF int_num = 41 THEN "29"
  ELSE IF int_num = 32 THEN "20"
  ELSE IF int_num = 33 THEN "21"
  ELSE IF int_num = 16 THEN "10"
  ELSE "other"

\* The if / else if chain on ah inside int 0x21, lines 465-533; it has no
\* final else.
Int21Branch ==
  IF ah = 76 THEN "4c"
  ELSE IF ah = 6 /\ Low8(regs.rdx) # 255 THEN "06"
  ELSE IF ah = 4 THEN "04"
  ELSE IF ah = 5 THEN "05"
  ELSE IF ah = 48 THEN "30"
  ELSE IF ah = 64 THEN "40"
  ELSE IF ah = 63 THEN "3f"
  ELSE IF ah = 9 THEN "09"
  ELSE "none"

AtInt(branch) ==
  /\ AtExit("hlt")
  /\ IsMagicHlt(regs, sregs)
  /\ IntBranch = branch

AtInt21(branch) == AtInt("21") /\ Int21Branch = branch

\* the return done as an iret would: FLAGS popped from the frame's third word
ReturnFromInt_Iret(r1, m1, io1, acc1) ==
  /\ \E ok \in BOOLEAN :
       set_sregs_regs_and_continue(
         ok,
         [r1 EXCEPT !.rip = W(int_ip), !.rsp = PopFrame(r1.rsp),
                    !.rflags = SetLow16(@, Word(mem, csip_ptr + 4))],
         SET_SEGMENT_REG(sregs, "cs", int_cs))
  /\ mem' = m1
  /\ io' = io1
  /\ acc' = {FrameAcc} \cup acc1
  /\ last' = ThisInt
  /\ UNCHANGED <<argv, image, cmd>>

\* "Return from the interrupt", lines 544-548, after a handler that left
\* the registers r1, the memory m1 and made the host calls io1.
ReturnFromInt(r1, m1, io1, acc1) ==
  /\ \E ok \in BOOLEAN :
       set_sregs_regs_and_continue(
         ok,
         [r1 EXCEPT !.rip = W(int_ip), !.rsp = PopFrame(r1.rsp)],
         SET_SEGMENT_REG(sregs, "cs", int_cs))
  /\ mem' = m1
  /\ io' = io1
  /\ acc' = {FrameAcc} \cup acc1
  /\ last' = ThisInt
  /\ UNCHANGED <<argv, image, cmd>>

\* exit(code) or goto exit from inside the synthetic-INT branch
ExitFromInt(code, acc1) ==
  /\ Exit(code)
  /\ acc' = {FrameAcc} \cup acc1
  /\ last' = ThisInt
  /\ UNCHANGED <<argv, image, cmd, mem, io>>

\* (void)!write(fd, &c, 1)
WriteChar(fd, c) == [op |-> "write", fd |-> fd, guest |-> FALSE, c |-> c, size |-> 1]

\* write(fd, p, size) / read(fd, p, size) on guest memory, returning got
HostCall(op, fd, p, size, got) ==
  [op |-> op, fd |-> fd, guest |-> TRUE, addr |-> p, size |-> size, got |-> got]

Min(a, b) == IF a < b THEN a ELSE b

\* What write(fd, p, size) may return: an error, all of it, or a short count.
WriteResults(size) == {0 - 1, size} \cup 0..Min(size, MaxIO)
\* What read(fd, p, size) may return: an error or a (short) count.
ReadResults(size) == {0 - 1} \cup 0..Min(size, MaxIO)

----------------------------------------------------------------------------
(* One action per case of the switch and per service.                      *)

\* case KVM_EXIT_IO falling into the next case, KVM_EXIT_SHUTDOWN
DispatchIO_Fatal ==
  /\ AtExit("io")
  /\ Exit(FATAL_STATUS)
  /\ last' = Last("io")
  /\ UNCHANGED <<argv, image, cmd, mem, io, acc>>

\* case KVM_EXIT_IO: sleep(1); break;  -- back to KVM_RUN, nothing is set
DispatchIO ==
  /\ AtExit("io")
  /\ pc' = "kvm_run"
  /\ last' = Last("io")
  /\ UNCHANGED <<status, argv, image, cmd, regs, sregs, run, mem, io, acc>>

\* case KVM_EXIT_SHUTDOWN: exit(252)
DispatchShutdown ==
  /\ AtExit("shutdown")
  /\ Exit(FATAL_STATUS)
  /\ last' = Last("shutdown")
  /\ UNCHANGED <<argv, image, cmd, mem, io, acc>>

\* case KVM_EXIT_MMIO with the commented-out "break" in place of "goto exit"
DispatchMMIO_Continue ==
  /\ AtExit("mmio")
  /\ pc' = "kvm_run"
  /\ last' = Last("mmio")
  /\ UNCHANGED <<status, argv, image, cmd, regs, sregs, run, mem, io, acc>>

\* case KVM_EXIT_MMIO: goto exit
DispatchMMIO ==
  /\ AtExit("mmio")
  /\ Exit(FATAL_STATUS)
  /\ last' = Last("mmio")
  /\ UNCHANGED <<argv, image, cmd, mem, io, acc>>

\* default: goto exit
DispatchDefault ==
  /\ AtExit("other")
  /\ Exit(FATAL_STATUS)
  /\ last' = Last("other")
  /\ UNCHANGED <<argv, image, cmd, mem, io, acc>>

\* case KVM_EXIT_HLT, else branch: "fatal: hlt", goto exit
DispatchHlt ==
  /\ AtExit("hlt")
  /\ ~IsMagicHlt(regs, sregs)
  /\ Exit(FATAL_STATUS)
  /\ last' = Last("hlt")
  /\ UNCHANGED <<argv, image, cmd, mem, io, acc>>

\* int 0x29: write(1, &c, 1) with c = AL
Int29 ==
  /\ AtInt("29")
  /\ ReturnFromInt(regs, mem, <<WriteChar(1, Low8(regs.rax))>>, {})

\* int 0x20: exit(0)
Int20 ==
  /\ AtInt("20")
  /\ ExitFromInt(0, {})

\* int 0x21, AH = 0x4c: exit(AL)
Int21_4C ==
  /\ AtInt21("4c")
  /\ ExitFromInt(ExitCode4C(regs), {})

\* int 0x21, AH = 0x06 with DL # 0xff: write(1, &c, 1) with c = DL
Int21_06 ==
  /\ AtInt21("06")
  /\ ReturnFromInt(regs, mem, <<WriteChar(1, Low8(regs.rdx))>>, {})

\* int 0x21, AH = 0x04: write(2, &c, 1) with c = DL
Int21_04 ==
  /\ AtInt21("04")
  /\ ReturnFromInt(regs, mem, <<WriteChar(2, Low8(regs.rdx))>>, {})

\* int 0x21, AH = 0x05: write(1, &c, 1) with c = DL
Int21_05 ==
  /\ AtInt21("05")
  /\ ReturnFromInt(regs, mem, <<WriteChar(1, Low8(regs.rdx))>>, {})

\* int 0x21, AH = 0x30: AX = 5, BX = 0xff00, CX = 0
Int21_30 ==
  /\ AtInt21("30")
  /\ ReturnFromInt([regs EXCEPT !.rax = SetLow16(@, 5),
                                !.rbx = SetLow16(@, 65280),
                                !.rcx = SetLow16(@, 0)], mem, <<>>, {})

\* error_on_21: after AX = code, CF = 1
ErrorOn21(r, code) ==
  [r EXCEPT !.rax = SetLow16(@, code), !.rflags = SetLow16(@, SetBit0(Low16(@)))]

\* CF = 0 and AX left at the requested count, CX
OkOn21_Requested(r, got) ==
  [r EXCEPT !.rflags = SetLow16(@, ClearBit0(Low16(@))),
            !.rax = SetLow16(@, Low16(r.rcx))]

\* CF = 0, AX = got
OkOn21(r, got) ==
  [r EXCEPT !.rflags = SetLow16(@, ClearBit0(Low16(@))), !.rax = SetLow16(@, got)]

\* int 0x21, AH = 0x40 with the body of AH = 0x3f: read() in place of write()
Int21_40_Reads ==
  /\ AtInt21("40")
  /\ LET fd == Low16(regs.rbx)
         p == DsDxPtr(regs, sregs)
         size == Low16(regs.rcx)
     IN IF fd > 4
        THEN ReturnFromInt(ErrorOn21(regs, 6), mem, <<>>, {})
        ELSE \E got \in ReadResults(size) :
               \E d \in [1..(IF got < 0 THEN 0 ELSE got) -> DataBytes] :
                 /\ Cardinality(DOMAIN Store(mem, p, d)) <= MaxDirty
                 /\ ReturnFromInt(IF got < 0 THEN ErrorOn21(regs, 29)
                                             ELSE OkOn21(regs, got),
                                  Store(mem, p, d),
                                  <<HostCall("read", HandleToFd(fd), p, size, got)>>,
                                  {[lo |-> p, len |-> size]})

\* int 0x21, AH = 0x40: write using handle
Int21_40 ==
  /\ AtInt21("40")
  /\ LET fd == Low16(regs.rbx)
         p == DsDxPtr(regs, sregs)
         size == Low16(regs.rcx)
     IN IF fd > 4
        THEN ReturnFromInt(ErrorOn21(regs, 6), mem, <<>>, {})
        ELSE \E got \in WriteResults(size) :
               ReturnFromInt(IF got < 0 THEN ErrorOn21(regs, 29)
                                        ELSE OkOn21(regs, got),
                             mem,
                             <<HostCall("write", HandleToFd(fd), p, size, got)>>,
                             {[lo |-> p, len |-> size]})

\* int 0x21, AH = 0x3f: read using handle; the host stores the bytes that
\* arrive at p .. p + got - 1
Int21_3F ==
  /\ AtInt21("3f")
  /\ LET fd == Low16(regs.rbx)
         p == DsDxPtr(regs, sregs)
         size == Low16(regs.rcx)
     IN IF fd > 4
        THEN ReturnFromInt(ErrorOn21(regs, 6), mem, <<>>, {})
        ELSE \E got \in ReadResults(size) :
               \E d \in [1..(IF got < 0 THEN 0 ELSE got) -> DataBytes] :
                 /\ Cardinality(DOMAIN Store(mem, p, d)) <= MaxDirty
                 /\ ReturnFromInt(IF got < 0 THEN ErrorOn21(regs, 30)
                                             ELSE OkOn21(regs, got),
                                  Store(mem, p, d),
                                  <<HostCall("read", HandleToFd(fd), p, size, got)>>,
                                  {[lo |-> p, len |-> size]})

\* the loop with ++dx ahead of the test for '$': the offset past the '$'
ScanDollar_PastDollar(m, p, dx0) ==
  IF \E k \in dx0..(TWO16 - 1) : MemAt(m, p + k) = 36
  THEN 1 + (CHOOSE k \in dx0..(TWO16 - 1) :
              /\ MemAt(m, p + k) = 36
              /\ \A j \in dx0..(k - 1) : MemAt(m, p + j) # 36)
  ELSE TWO16

\* for (;;) { if (p[dx] == '$') break; ++dx; if (dx == 0) fatal; }
\* dx is an unsigned short: the loop stops at the first offset in
\* dx0..0xffff that holds '$', or at the wrap of dx to 0 when there is none.
\* The result is that offset, or TWO16 for the wrap.
ScanDollar(m, p, dx0) ==
  IF \E k \in dx0..(TWO16 - 1) : MemAt(m, p + k) = 36
  THEN CHOOSE k \in dx0..(TWO16 - 1) :
         /\ MemAt(m, p + k) = 36
         /\ \A j \in dx0..(k - 1) : MemAt(m, p + j) # 36
  ELSE TWO16

\* int 0x21, AH = 0x09: print string, found '$'
Int21_09 ==
  /\ AtInt21("09")
  /\ LET dx0 == Low16(regs.rdx)
         p == sregs.ds.selector * 16
         dx == ScanDollar(mem, p, dx0)
     IN /\ dx < TWO16
        /\ ReturnFromInt(regs, mem,
                         <<HostCall("write", 1, p + dx0, dx - dx0, dx - dx0)>>,
                         {[lo |-> p + dx0, len |-> dx - dx0 + 1]})

\* int 0x21, AH = 0x09: dx wrapped to 0, exit(252)
Int21_09_Overflow ==
  /\ AtInt21("09")
  /\ LET dx0 == Low16(regs.rdx)
         p == sregs.ds.selector * 16
     IN /\ ScanDollar(mem, p, dx0) = TWO16
        /\ ExitFromInt(FATAL_STATUS, {[lo |-> p + dx0, len |-> TWO16 - dx0]})

\* int 0x21, any other AH (and AH = 0x06 with DL = 0xff): no branch of the
\* chain is taken, control reaches "Return from the interrupt"
Int21_None ==
  /\ AtInt21("none")
  /\ ReturnFromInt(regs, mem, <<>>, {})

\* int 0x10, AH = 0x0e: write(1, &c, 1) with c = AL
Int10_0E ==
  /\ AtInt("10")
  /\ ah = 14
  /\ ReturnFromInt(regs, mem, <<WriteChar(1, Low8(regs.rax))>>, {})

\* int 0x10, other AH: goto exit
Int10_Other ==
  /\ AtInt("10")
  /\ ah # 14
  /\ ExitFromInt(FATAL_STATUS, {})

\* any other interrupt number: goto exit
IntOther ==
  /\ AtInt("other")
  /\ ExitFromInt(FATAL_STATUS, {})

Dispatch ==
  \/ DispatchIO \/ DispatchShutdown \/ DispatchMMIO \/ DispatchDefault
  \/ DispatchHlt
  \/ Int29 \/ Int20
  \/ Int21_4C \/ Int21_06 \/ Int21_04 \/ Int21_05 \/ Int21_30
  \/ Int21_40 \/ Int21_3F \/ Int21_09 \/ Int21_09_Overflow \/ Int21_None
  \/ Int10_0E \/ Int10_Other \/ IntOther

Next ==
  \/ BootFail \/ Bootstrap
  \/ KvmRunEnter \/ GuestStore \/ KvmFail \/ VmExit
  \/ Dispatch

Spec == Init /\ [][Next]_vars

----------------------------------------------------------------------------
(* Bootstrap over many command lines and files, followed by a guest that   *)
(* is run instruction by instruction.  Inside KVM_RUN the VCPU executes    *)
(* the bytes at CS:IP in real mode; Cpu* below is what it does for the few *)
(* opcodes the files considered here contain, up to the first hlt.         *)

MaxInsns == 8      \* a guest is followed for at most this many instructions

\* Command lines: none; ""; "A"; "\xff\xff"; "A" "BB"; one argument of 125,
\* 126, 127 bytes; 62 + 63 bytes; 63 + 63 bytes; 126 bytes and "".
BootArgLists ==
  {<<>>, <<<<>>>>, <<Run(1, 65)>>, <<Run(2, 255)>>, <<Run(1, 65), Run(2, 66)>>,
   <<Run(125, 65)>>, <<Run(126, 65)>>, <<Run(127, 65)>>,
   <<Run(62, 65), Run(63, 66)>>, <<Run(63, 65), Run(63, 66)>>,
   <<Run(126, 65), <<>>>>}

\* Files: ret; nop, ret; hlt; the hello program; the empty file; ret and
\* 0xff up to and over the initial stack word; ret and nops up to exactly
\* 0xa0000, and one byte more; a file one byte longer than the arena has
\* room for (load_guest's read() then gets a buffer that leaves the mapping:
\* it fails, which is BootFail, or it stores into whatever the host has
\* mapped there, which is outside this model, and bootstrap goes on).
BootImages ==
  {File(<<195>>, 0, 0), File(<<144, 195>>, 0, 0), File(<<244>>, 0, 0),
   HelloImage, File(<<>>, 0, 0),
   File(<<195>>, 65535, 255),
   File(<<195>>, 651007, 144), File(<<195>>, 651008, 144),
   File(<<195>>, MEM_SIZE - ImageAddr, 144)}

BootInit ==
  /\ pc = "boot"
  /\ status = NoStatus
  /\ argv \in BootArgLists
  /\ image \in BootImages
  /\ cmd = NoCmd
  /\ regs = ResetRegs
  /\ sregs = ResetSregs
  /\ run = [exit_reason |-> "none"]
  /\ mem = EmptyMem
  /\ last = NoLast
  /\ io = <<>>
  /\ acc = {}

\* The VCPU as KVM_SET_SREGS / KVM_SET_REGS left it: the 16-bit registers
\* the opcodes below use, the memory, and st = "run".
CpuOf(r, s, m) ==
  [cs |-> s.cs.selector, ip |-> Low16(r.rip), ss |-> s.ss.selector,
   sp |-> Low16(r.rsp), ax |-> Low16(r.rax), dx |-> Low16(r.rdx),
   fl |-> Low16(r.rflags), m |-> m, st |-> "run"]

CpuFetch(c, k) == MemAt(c.m, c.cs * 16 + ((c.ip + k) % TWO16))

\* push w: SP -= 2, then the word w is stored at SS:SP
CpuPush(c, w) ==
  LET sp1 == (c.sp + TWO16 - 2) % TWO16
  IN [c EXCEPT !.sp = sp1,
               !.m = Store(c.m, c.ss * 16 + sp1, <<w % 256, w \div 256>>)]

\* One instruction: nop; ret; int n; hlt; mov ah, imm8; mov dx, imm16.
\* Any other opcode, and an int whose frame would not lie in the writable
\* slot, is not followed further (st = "other").
CpuStep(c) ==
  LET op == CpuFetch(c, 0)
      next(n) == (c.ip + n) % TWO16
      slot(k) == c.ss * 16 + ((c.sp + TWO16 - k) % TWO16)
      \* IF and TF (bits 9 and 8) cleared
      masked == (c.fl \div 1024) * 1024 + (c.fl % 256)
  IN CASE op = 144 -> [c EXCEPT !.ip = next(1)]
       [] op = 195 -> [c EXCEPT !.ip = Word(c.m, c.ss * 16 + c.sp),
                                !.sp = (c.sp + 2) % TWO16]
       [] op = 205 /\ \A k \in {2, 4, 6} : slot(k) >= GUEST_MEM_MODULE_START ->
            LET n == CpuFetch(c, 1)
                c3 == CpuPush(CpuPush(CpuPush(c, c.fl), c.cs), next(2))
            IN [c3 EXCEPT !.fl = masked,
                          !.ip = Word(c.m, 4 * n),
                          !.cs = Word(c.m, 4 * n + 2)]
       [] op = 244 -> [c EXCEPT !.ip = next(1), !.st = "hlt"]
       [] op = 180 -> [c EXCEPT !.ax = (c.ax % 256) + 256 * CpuFetch(c, 1),
                                !.ip = next(2)]
       [] op = 186 -> [c EXCEPT !.dx = CpuFetch(c, 1) + 256 * CpuFetch(c, 2),
                                !.ip = next(3)]
       [] OTHER -> [c EXCEPT !.st = "other"]

RECURSIVE CpuRun(_, _)
CpuRun(c, n) ==
  IF c.st # "run" \/ n = 0 THEN c ELSE CpuRun(CpuStep(c), n - 1)

\* ioctl(KVM_RUN) with such a guest, up to its hlt: the exit is
\* KVM_EXIT_HLT, and KVM_GET_REGS / KVM_GET_SREGS return what the guest
\* left in the registers.
GuestExec ==
  /\ pc = "kvm_run"
  /\ LET c == CpuRun(CpuOf(regs, sregs, mem), MaxInsns)
     IN /\ c.st = "hlt"
        /\ regs' = [regs EXCEPT !.rax = SetLow16(@, c.ax),
                                !.rdx = SetLow16(@, c.dx),
                                !.rsp = SetLow16(@, c.sp),
                                !.rip = W(c.ip),
                                !.rflags = SetLow16(@, c.fl)]
        /\ sregs' = [sregs EXCEPT !.cs = Seg(c.cs)]
        /\ mem' = c.m
  /\ pc' = "dispatch"
  /\ run' = [exit_reason |-> "hlt"]
  /\ last' = NoLast
  /\ io' = <<>>
  /\ acc' = {}
  /\ UNCHANGED <<status, argv, image, cmd>>

BootNext ==
  \/ BootFail \/ Bootstrap
  \/ GuestExec
  \/ DispatchHlt \/ Int20 \/ Int21_09

BootSpec == BootInit /\ [][BootNext]_vars

----------------------------------------------------------------------------
(* Print string over a whole segment.  The guest's data segment is the    *)
(* zero-filled segment 0x2000; it stores a '$' or an 'A' at the last and  *)
(* at the fourth byte of it, and calls int 0x21 with AH = 0x09.           *)

ScanSeg == 8192                                   \* DS = 0x2000
ScanStoreAddrs == {ScanSeg * 16 + 65535, ScanSeg * 16 + 3}
ScanOffsets == {0, 3, 4, 65535}                   \* DX

ScanGuestStore ==
  /\ pc = "guest"
  /\ \E a \in ScanStoreAddrs, b \in DataBytes :
       /\ a >= GUEST_MEM_MODULE_START
       /\ a < MEM_SIZE
       /\ mem' = Store(mem, a, <<b>>)
       /\ Cardinality(DOMAIN mem') <= MaxDirty
  /\ UNCHANGED <<pc, status, argv, image, cmd, regs, sregs, run, last, io, acc>>

ScanVmExit ==
  /\ pc = "guest"
  /\ \E dx \in ScanOffsets, fl \in FlagValues :
       LET x == Mk("hlt", 64, 34, 9 * 256, 0, 0, <<ScanSeg, dx>>, DefStack, fl, 256)
       IN /\ run' = [exit_reason |-> x.exit_reason]
          /\ regs' = x.regs
          /\ sregs' = x.sregs
  /\ pc' = "dispatch"
  /\ UNCHANGED <<status, argv, image, cmd, mem, last, io, acc>>

ScanNext ==
  \/ BootFail \/ Bootstrap
  \/ KvmRunEnter \/ ScanGuestStore \/ KvmFail \/ ScanVmExit
  \/ Int21_09 \/ Int21_09_Overflow

ScanSpec == Init /\ [][ScanNext]_vars

----------------------------------------------------------------------------
(* Properties.  A step "from a synthetic INT" is a step of the dispatcher   *)
(* taken at a halt exit with CS = 0x0040 and IP - 1 in 0..255; the         *)
(* unprimed variables are the registers and the memory as they were at the *)
(* exit, the primed ones what the host hands back to the VCPU.             *)

\* C1: every synthetic-INT dispatch that returns to the guest writes back
\* CS = the word at SS:SP+2 and IP = the word at SS:SP of the stack as it
\* was at the exit, and the stack pointer advanced by 6: the register the
\* host writes is the exit-time one plus 6 (in 32 bits), which for an
\* exit-time SP in 0..0xffff is exactly SP + 6.
C1_ReturnFrame ==
  [][(/\ pc = "dispatch" /\ run.exit_reason = "hlt"
      /\ sregs.cs.selector = 64 /\ regs.rip.hi = 0 /\ regs.rip.lo \in 1..256
      /\ pc' = "kvm_run")
     => LET a == sregs.ss.selector * 16 + regs.rsp.lo
            carry == IF regs.rsp.lo + 6 >= TWO16 THEN 1 ELSE 0
        IN /\ sregs'.cs.selector = MemAt(mem, a + 2) + 256 * MemAt(mem, a + 3)
           /\ regs'.rip = [hi |-> 0, lo |-> MemAt(mem, a) + 256 * MemAt(mem, a + 1)]
           /\ regs'.rsp.lo = (regs.rsp.lo + 6) % TWO16
           /\ regs'.rsp.hi = (regs.rsp.hi + carry) % TWO16
           /\ (regs.rsp.hi = 0 =>
                 regs'.rsp.hi * TWO16 + regs'.rsp.lo = regs.rsp.lo + 6)]_vars

\* AH = 0x3f has read into the buffer at 0x100:0x200, which is where the
\* return frame was (SS:SP = 0x100:0x200): the frame words in memory are no
\* longer what the guest pushed, and the guest resumes at the pushed 0:0.
C1_FrameOverwrittenByRead ==
  /\ pc = "kvm_run" /\ last.kind = "int" /\ last.int_num = 33 /\ last.ah = 63
  /\ regs.rsp = W(518)
  /\ MemAt(mem, 4608) = 65 /\ MemAt(mem, 4609) = 65
  /\ regs.rip = W(0) /\ sregs.cs.selector = 0

\* C2: a halt exit is a synthetic INT with int_num = IP - 1 exactly when
\* CS.selector = 0x0040 and IP is in 1..256; every other halt exit ends the
\* process with a nonzero status, the guest is not resumed.
C2_MagicHlt ==
  [][(pc = "dispatch" /\ run.exit_reason = "hlt")
     => IF sregs.cs.selector = 64 /\ regs.rip.hi = 0 /\ regs.rip.lo \in 1..256
        THEN last'.kind = "int" /\ last'.int_num = regs.rip.lo - 1
        ELSE pc' = "exited" /\ status' \in 1..255 /\ last'.kind = "hlt"]_vars

\* IP = 256, the last entry of the table, was dispatched as int 0xff
C2_LastTableEntry ==
  pc = "exited" /\ last.kind = "int" /\ last.int_num = 255 /\ status = 252

\* C3: every register state the host hands to the VCPU, at bootstrap and
\* after a synthetic-INT return, has base = selector << 4 in all six
\* segment registers, whatever CS word the return frame held.
C3_SegmentBase ==
  pc = "kvm_run" => \A n \in SegNames : sregs[n].base = sregs[n].selector * 16

\* a return to CS = 0xffff, read from the frame on the command line
C3_ReturnToTopSegment ==
  /\ pc = "kvm_run" /\ last.kind = "int"
  /\ sregs.cs.selector = 65535 /\ sregs.cs.base = 1048560

\* C4: every range of guest memory the host touches while dispatching (the
\* return frame, the AH = 0x3f and 0x40 buffers, the AH = 0x09 scan) lies
\* inside the arena [0, 0x200000).
C4_AccessInArena ==
  \A r \in acc : r.lo >= 0 /\ r.len >= 0 /\ r.lo + r.len <= 2097152

\* AH = 0x3f with DS:DX = 0xffff:0xffff and CX = 0xffff, the topmost buffer
C4_TopmostBuffer ==
  /\ last.kind = "int" /\ last.int_num = 33 /\ last.ah = 63
  /\ \E r \in acc : r.lo = 1114095 /\ r.len = 65535

\* C5: an INT 21h service that returns to the guest leaves CF = 0 when it
\* completed (AH = 0x04, 0x05, 0x06, 0x09, 0x30, and AH = 0x3f / 0x40 with
\* a handle in 0..4 and a host call that did not fail), and CF = 1 with
\* AX = 6, 0x1e or 0x1d when it reports an invalid handle, a read failure
\* or a write failure, whatever CF was at the INT.
C5_CarryFlag ==
  [][(/\ pc = "dispatch" /\ run.exit_reason = "hlt"
      /\ sregs.cs.selector = 64 /\ regs.rip = W(34)
      /\ pc' = "kvm_run")
     => LET a == regs.rax.lo \div 256
            bx == regs.rbx.lo
            dl == regs.rdx.lo % 256
            cf == regs'.rflags.lo % 2
            ax == regs'.rax.lo
            failed == io' # <<>> /\ io'[1].got < 0
        IN /\ (a \in {4, 5, 9, 48} \/ (a = 6 /\ dl # 255)) => cf = 0
           /\ (a \in {63, 64} /\ bx <= 4 /\ ~failed) => cf = 0
           /\ (a \in {63, 64} /\ bx > 4) => (cf = 1 /\ ax = 6)
           /\ (a = 63 /\ bx <= 4 /\ failed) => (cf = 1 /\ ax = 30)
           /\ (a = 64 /\ bx <= 4 /\ failed) => (cf = 1 /\ ax = 29)]_vars

\* AH = 0x30 has returned to the guest with CF still set
C5_CarryKept ==
  /\ pc = "kvm_run" /\ last.kind = "int" /\ last.int_num = 33 /\ last.ah = 48
  /\ regs.rax.lo = 5 /\ regs.rflags.lo % 2 = 1

\* C6: a synthetic INT outside the service table ends the process with
\* status 252 and the guest is not resumed: an interrupt number other than
\* 0x10, 0x20, 0x21, 0x29; INT 10h with AH # 0x0e; INT 21h with AH outside
\* 0x01..0x0b and not 0x30, 0x3f, 0x40, 0x4c.
C6_UnrecognizedFatal ==
  [][(/\ pc = "dispatch" /\ run.exit_reason = "hlt"
      /\ sregs.cs.selector = 64 /\ regs.rip.hi = 0 /\ regs.rip.lo \in 1..256
      /\ LET n == regs.rip.lo - 1
             a == regs.rax.lo \div 256
         IN \/ n \notin {16, 32, 33, 41}
            \/ n = 16 /\ a # 14
            \/ n = 33 /\ a \notin 1..11 /\ a \notin {48, 63, 64, 76})
     => (pc' = "exited" /\ status' = 252)]_vars

\* INT 21h with AH = 0x2a has been answered by a return to the guest
C6_UnrecognizedResumed ==
  /\ pc = "kvm_run" /\ last.kind = "int" /\ last.int_num = 33 /\ last.ah = 42
  /\ status = NoStatus

C8_ExitStatus ==
  [][(pc # "exited" /\ pc' = "exited")
     => LET synth == /\ pc = "dispatch" /\ run.exit_reason = "hlt"
                     /\ sregs.cs.selector = 64
                     /\ regs.rip.hi = 0 /\ regs.rip.lo \in 1..256
            n == regs.rip.lo - 1
            a == regs.rax.lo \div 256
        IN IF synth /\ n = 32 THEN status' = 0
           ELSE IF synth /\ n = 33 /\ a = 76 THEN status' = regs.rax.lo % 256
           ELSE status' = 252]_vars

\* INT 21h AH = 0x4c with AL = 0xff has ended the process with status 255
C8_ExitWithAL ==
  /\ pc = "exited" /\ last.kind = "int" /\ last.int_num = 33 /\ last.ah = 76
  /\ status = 255

\* C9: the dispatcher is the state machine RUNNING -> DISPATCH ->
\* {RUNNING, TERMINATED}: a dispatch is entered only from the running
\* guest, always has a step to take, and that step resumes the VCPU once
\* or ends the process; MMIO, shutdown and unknown exit reasons end it with
\* status 252; once the process has ended nothing more happens.
C9_StateMachine ==
  /\ [](pc = "dispatch" => ENABLED Dispatch)
  /\ [][/\ pc' = "dispatch" => pc \in {"guest", "dispatch"}
        /\ pc = "dispatch" => pc' \in {"dispatch", "kvm_run", "exited"}
        /\ (pc = "dispatch" /\ run.exit_reason \in {"mmio", "shutdown", "other"})
             => (pc' = "exited" /\ status' = 252)
        /\ pc = "kvm_run" => pc' \in {"kvm_run", "guest"}
        /\ pc' = "guest" => pc \in {"kvm_run", "guest"}
        /\ pc = "exited" => UNCHANGED vars]_vars

\* an MMIO exit has ended the process
C9_MmioTerminated ==
  pc = "exited" /\ last.kind = "mmio" /\ status = 252 /\ io = <<>>

\* C10: once bootstrap is done, each dword at 4*i (i in 0..255) equals
\* 0x00400000 | i and each byte in [0x400, 0x500) equals 0xf4, in every
\* state, also after INT 21h AH = 0x3f with a buffer inside [0, 0x1000).
C10_IvtImmutable ==
  pc \in {"kvm_run", "guest", "dispatch"}
  => /\ \A i \in 0..255 :
          MemAt(mem, 4 * i) + 256 * MemAt(mem, 4 * i + 1)
            + 65536 * MemAt(mem, 4 * i + 2) + 16777216 * MemAt(mem, 4 * i + 3)
          = 4194304 + i
     /\ \A a \in 1024..1279 : MemAt(mem, a) = 244

\* AH = 0x3f with DS:DX = 0:0x84 has stored "AA" over the vector of int 0x21
C10_VectorOverwritten ==
  /\ pc = "kvm_run" /\ last.kind = "int" /\ last.int_num = 33 /\ last.ah = 63
  /\ MemAt(mem, 132) = 65 /\ MemAt(mem, 133) = 65

\* C11: the command-line tail is, for each argument in order, one space
\* followed by the argument, of length L.  With L >= 128 the process ends
\* with status 252 before the guest runs; with L <= 127 bootstrap can go
\* through, and at the first resume PSP[0x80] = L, PSP[0x81 .. 0x80+L] is
\* the tail and PSP[0x81+L] = 0x0d (with no arguments, PSP[0x81] = 0x0d).
C11_CommandTail ==
  LET RECURSIVE tail(_)
      tail(args) == IF args = <<>> THEN <<>>
                    ELSE <<32>> \o Head(args) \o tail(Tail(args))
      t == tail(argv)
      L == Len(t)
  IN /\ L >= 128 => (pc \in {"boot", "exited"} /\ (pc = "exited" => status = 252))
     /\ (pc = "boot" /\ L <= 127) => ENABLED (Bootstrap /\ pc' = "kvm_run")
     /\ (pc = "kvm_run" /\ last.kind = "boot")
          => /\ L <= 127
             /\ MemAt(mem, 4224) = L
             /\ \A i \in 1..L : MemAt(mem, 4224 + i) = t[i]
             /\ MemAt(mem, 4225 + L) = 13

\* the first resume after a command line of two arguments, 62 and 63 bytes
\* long: L = 127
C11_TwoArgumentsFull ==
  /\ pc = "kvm_run" /\ last.kind = "boot" /\ Len(argv) = 2
  /\ MemAt(mem, 4224) = 127 /\ MemAt(mem, 4225) = 32 /\ MemAt(mem, 4288) = 32

\* C12: a file longer than 0xa0000 - BASE_PARA*16 - 0x100 = 651008 bytes is
\* rejected: the process ends with an error before the guest runs (so the
\* guest never sees a byte of the file at or beyond 0xa0000).
C12_OversizedRejected ==
  ImageLen(image) > 651008
  => /\ pc \in {"boot", "exited"}
     /\ pc = "exited" => status \in 1..255

\* the first resume with a file of 651009 bytes loaded: its last byte is at
\* 0xa0000
C12_LoadedPastLimit ==
  /\ pc = "kvm_run" /\ last.kind = "boot" /\ status = NoStatus
  /\ ImageLen(image) = 651009
  /\ MemAt(mem, 655359) = 144 /\ MemAt(mem, 655360) = 144
  /\ MemAt(mem, 655361) = 0

\* C13: at the first resume, whatever the file and the accepted command
\* line, CS = DS = ES = FS = GS = SS = BASE_PARA, SP = 0xfffe, IP = 0x0100,
\* FLAGS = 0x0002, the word at SS:0xfffe is 0 and PSP bytes 0..1 are cd 20;
\* so a guest that starts with a near ret (directly or after a nop) comes
\* to a halt exit as int 0x20, with the frame at SS:0xfffa, and that exit
\* ends the process with status 0.
C13_InitialState ==
  /\ []((pc = "kvm_run" /\ last.kind = "boot")
        => /\ \A n \in SegNames : sregs[n].selector = 256
           /\ regs.rsp = [hi |-> 0, lo |-> 65534]
           /\ regs.rip = [hi |-> 0, lo |-> 256]
           /\ regs.rflags = [hi |-> 0, lo |-> 2]
           /\ MemAt(mem, 69630) = 0 /\ MemAt(mem, 69631) = 0
           /\ MemAt(mem, 4096) = 205 /\ MemAt(mem, 4097) = 32
           /\ (\/ MemAt(mem, 4352) = 195
               \/ MemAt(mem, 4352) = 144 /\ MemAt(mem, 4353) = 195)
                => LET c == CpuRun(CpuOf(regs, sregs, mem), MaxInsns)
                   IN c.st = "hlt" /\ c.cs = 64 /\ c.ip = 33 /\ c.sp = 65530)
  /\ [][/\ (/\ pc = "kvm_run" /\ last.kind = "boot"
            /\ \/ MemAt(mem, 4352) = 195
               \/ MemAt(mem, 4352) = 144 /\ MemAt(mem, 4353) = 195)
           => (\/ pc' = "exited" /\ last' = last
               \/ /\ pc' = "dispatch" /\ run'.exit_reason = "hlt"
                  /\ sregs'.cs.selector = 64 /\ regs'.rip = [hi |-> 0, lo |-> 33]
                  /\ sregs'.ss.selector = 256
                  /\ regs'.rsp = [hi |-> 0, lo |-> 65530])
        /\ (/\ pc = "dispatch" /\ run.exit_reason = "hlt"
            /\ sregs.cs.selector = 64 /\ regs.rip = [hi |-> 0, lo |-> 33])
           => (pc' = "exited" /\ status' = 0)]_vars

\* a file that reaches over the initial stack word with 0xff bytes: its
\* ret still went to offset 0, and int 0x20 ended the process with status 0
C13_RetOverFullSegment ==
  /\ pc = "exited" /\ status = 0 /\ last.kind = "int" /\ last.int_num = 32
  /\ ImageLen(image) = 65536 /\ image.fill = 255

\* C18: building the PSP never modifies the loaded image: for every
\* accepted command line the length byte, the tail and its 0x0d terminator
\* lie at offsets 0x80..0xff of the program segment, and at the first
\* resume the byte at offset 0x100 is the first byte of the file.
C18_ImageIntact ==
  (pc = "kvm_run" /\ last.kind = "boot")
  => /\ ArgsAddr + cmd.size <= PspAddr + 255
     /\ ImageLen(image) > 0 => MemAt(mem, ImageAddr) = ImageByte(image, 0)

\* one argument of 126 bytes: the tail is 127 bytes long, and its
\* terminator has replaced the ret the file starts with
C18_TerminatorAtEntry ==
  /\ pc = "kvm_run" /\ last.kind = "boot"
  /\ Len(argv) = 1 /\ Len(argv[1]) = 126
  /\ MemAt(mem, ArgsAddr) = 127
  /\ ImageByte(image, 0) = 195 /\ MemAt(mem, ImageAddr) = 13

\* C14: int 0x21 AH = 0x09 with DS:DX = (s, d).  If the first '$' at an
\* offset >= d of segment s is at offset k, the host issues exactly one
\* write to descriptor 1, of the k - d bytes at s:d .. s:k-1 (0xffff bytes
\* for d = 0, k = 0xffff), changes no memory and returns to the guest; if
\* there is no '$' at offsets d..0xffff, nothing is written and the process
\* ends with status 252.  Either way the scan has read at most 0x10000 bytes.
C14_PrintString ==
  [][AtInt21("09")
     => LET d == Low16(regs.rdx)
            p == sregs.ds.selector * 16
            hits == {k \in d..65535 : MemAt(mem, p + k) = 36}
        IN /\ mem' = mem
           /\ \A e \in acc' : e.len <= 65536
           /\ IF hits # {}
              THEN LET k == CHOOSE x \in hits : \A y \in hits : x <= y
                   IN /\ Len(io') = 1
                      /\ io'[1].op = "write" /\ io'[1].fd = 1 /\ io'[1].guest
                      /\ io'[1].addr = p + d /\ io'[1].size = k - d
                      /\ \/ /\ pc' = "kvm_run"
                            /\ regs'.rip.lo = int_ip
                            /\ sregs'.cs.selector = int_cs
                         \/ pc' = "exited" /\ status' = 252 /\ regs' = NoRegs
              ELSE /\ io' = <<>>
                   /\ pc' = "exited" /\ status' = 252]_vars

\* the guest is running again after a print of the 0xffff bytes before the
\* '$' in the last byte of its data segment
C14_WholeSegmentPrinted ==
  /\ pc = "kvm_run" /\ last.kind = "int" /\ last.int_num = 33 /\ last.ah = 9
  /\ MemAt(mem, ScanSeg * 16 + 65535) = 36
  /\ Len(io) = 1 /\ io[1].addr = ScanSeg * 16 /\ io[1].size = 65535

\* C15: int 0x21 AH = 0x40 with BX = 1 and CX = n issues one write to
\* descriptor 1 of the n bytes at DS:DX and changes no memory; when the
\* write reports got >= 0 the guest gets AX = got and CF = 0, and got is
\* never above n: so a full write returns AX = n, and CX = 0 returns AX = 0.
C15_WriteStdout ==
  [][(AtInt21("40") /\ Low16(regs.rbx) = 1)
     => LET n == regs.rcx.lo
            p == sregs.ds.selector * 16 + regs.rdx.lo
        IN /\ mem' = mem
           /\ Len(io') = 1
           /\ io'[1].op = "write" /\ io'[1].fd = 1 /\ io'[1].guest
           /\ io'[1].addr = p /\ io'[1].size = n
           /\ io'[1].got <= n
           /\ (pc' = "kvm_run" /\ io'[1].got >= 0)
                => /\ regs'.rax.lo = io'[1].got
                   /\ regs'.rax.hi = regs.rax.hi
                   /\ Bit0(regs'.rflags.lo) = 0
                   /\ (n = 0 => regs'.rax.lo = 0)
                   /\ (io'[1].got = n => regs'.rax.lo = n)]_vars

\* a write of 0xffff bytes to handle 1 that the host took in full
C15_FullWrite ==
  /\ pc = "kvm_run" /\ last.kind = "int" /\ last.int_num = 33 /\ last.ah = 64
  /\ Len(io) = 1 /\ io[1].fd = 1 /\ io[1].size = 65535 /\ io[1].got = 65535
  /\ regs.rax.lo = 65535 /\ Bit0(regs.rflags.lo) = 0

\* C16: an I/O-port exit has no guest-visible effect: the dispatcher leaves
\* every register, every segment register and all of guest memory as they
\* were, makes no host write, and goes back to KVM_RUN; the process does
\* not end on it.
C16_IoConsumed ==
  [][AtExit("io")
     => /\ regs' = regs /\ sregs' = sregs /\ mem' = mem
        /\ io' = <<>> /\ io = <<>>
        /\ pc' = "kvm_run"
        /\ status' = NoStatus /\ status = NoStatus]_vars

\* the VCPU is about to be resumed after an I/O-port exit, at the CS:IP
\* and with the FLAGS of that exit
C16_ResumedAfterIo ==
  /\ pc = "kvm_run" /\ last.kind = "io" /\ status = NoStatus
  /\ sregs.cs.selector = 256 /\ regs.rip = [hi |-> 0, lo |-> 265]
  /\ regs.rflags.lo = 583

\* C17: on return from a synthetic INT the FLAGS register is the one read
\* at the halt exit, whatever the third word of the frame at SS:SP+4 holds:
\* every bit but bit 0 is unchanged, and bit 0 changes only under
\* int 0x21 AH = 0x3f / 0x40.
C17_FlagsKept ==
  [][(AtExit("hlt") /\ IsMagicHlt(regs, sregs) /\ pc' = "kvm_run")
     => /\ regs'.rflags.hi = regs.rflags.hi
        /\ regs'.rflags.lo \div 2 = regs.rflags.lo \div 2
        /\ (int_num # 33 \/ ah \notin {63, 64}) => regs'.rflags = regs.rflags]_vars

\* a return with the frame on the command line at psp + 0x80: the third
\* word of the frame is 0x000d, FLAGS is still 0x0247
C17_FrameFlagsIgnored ==
  /\ pc = "kvm_run" /\ last.kind = "int"
  /\ sregs.ss.selector = 256 /\ regs.rsp = [hi |-> 0, lo |-> 134]
  /\ Word(mem, PspAddr + 132) = 13
  /\ regs.rflags = [hi |-> 0, lo |-> 583]

\* C19: after bootstrap the dispatcher changes guest memory only under
\* int 0x21 AH = 0x3f with BX <= 4, and then only inside the CX bytes from
\* DS:DX on; every other exit and service leaves all of memory, the popped
\* frame included, as it was.
C19_MemoryFrame ==
  [][pc = "dispatch"
     => \/ mem' = mem
        \/ /\ AtInt21("3f") /\ regs.rbx.lo <= 4
           /\ LET p == sregs.ds.selector * 16 + regs.rdx.lo
                  n == regs.rcx.lo
              IN \A a \in DOMAIN mem \cup DOMAIN mem' :
                   MemAt(mem', a) # MemAt(mem, a) => (a >= p /\ a < p + n)]_vars

\* a read of up to 0xffff bytes from handle 0 into the buffer that holds the
\* return frame: two bytes arrived, the guest is resumed with them in memory
C19_ReadStored ==
  /\ pc = "kvm_run" /\ last.kind = "int" /\ last.int_num = 33 /\ last.ah = 63
  /\ Len(io) = 1 /\ io[1].op = "read" /\ io[1].fd = 0 /\ io[1].got = 2
  /\ io[1].size = 65535 /\ io[1].addr = PspAddr + 512
  /\ MemAt(mem, PspAddr + 512) = 36 /\ MemAt(mem, PspAddr + 513) = 65

\* C20: after every synthetic-INT return, for every exit-time SP in
\* 0..0xffff (the upper half of ESP being 0), the stack pointer handed to
\* the VCPU is in 0..0xffff and equals (SP + 6) mod 0x10000.
C20_SixteenBitSp ==
  [][(AtExit("hlt") /\ IsMagicHlt(regs, sregs) /\ regs.rsp.hi = 0
      /\ pc' = "kvm_run")
     => /\ regs'.rsp.hi = 0
        /\ regs'.rsp.lo = (regs.rsp.lo + 6) % 65536]_vars

\* the exit had SS:SP = ffff:ffff; the VCPU is resumed with RSP = 0x10005
C20_SpAbove16Bits ==
  /\ pc = "kvm_run" /\ last.kind = "int"
  /\ sregs.ss.selector = 65535
  /\ regs.rsp = [hi |-> 1, lo |-> 5]

====
